---- MODULE Spec2Model ----
(***************************************************************************)
(* CTC beam search decoder (src/src/lib.rs, fn beam_search).               *)
(*                                                                         *)
(* f32 values are modelled as extended rationals <<n, d>>: d > 0 is the    *)
(* finite value n/d in lowest terms, <<0, 0>> is NaN and <<1, 0>> is       *)
(* +infinity.  Rounding of f32 arithmetic is not modelled; the IEEE        *)
(* special cases the code depends on (0/0, NaN propagation, comparisons    *)
(* with NaN being false, partial_cmp returning None) are.                  *)
(*                                                                         *)
(* Option<T> values are modelled as sets with at most one element.         *)
(* A String is modelled as the sequence of its one-character strings.      *)
(***************************************************************************)
EXTENDS Integers, Sequences, FiniteSets, TLC

VARIABLES alphabet, probs, beam_size, suffix_tree, beam, next_beam, idx, pos, pc, result

vars == <<alphabet, probs, beam_size, suffix_tree, beam, next_beam, idx, pos, pc, result>>

(* ---------------------------- bounds ---------------------------------- *)

\* Spec: at most MaxCells matrix entries, drawn from Vals
MaxCells == 4

MaxBeam == 3

\* SpecOneHot: at most MaxCellsOneHot entries, every row with a single 1.0
MaxCellsOneHot == 12

MaxBeamOneHot == 2

\* SpecProb: at most MaxCellsProb entries, drawn from ProbVals
MaxCellsProb == 6

MaxBeamProb == 3

\* SpecACGT: the fixed "-ACGT" matrix
BeamSizesACGT == {1, 2}

(* ------------------------- f32 arithmetic ----------------------------- *)

NaN == <<0, 0>>

Zero == <<0, 1>>

One == <<1, 1>>

Abs(n) == IF n < 0 THEN 0 - n ELSE n

RECURSIVE GCD(_, _)
GCD(a, b) == IF b = 0 THEN a ELSE GCD(b, a % b)

Sign(n) == IF n > 0 THEN 1 ELSE IF n < 0 THEN 0 - 1 ELSE 0

Norm(n, d) ==
    IF d = 0 THEN <<Sign(n), 0>>
    ELSE LET g == GCD(Abs(n), Abs(d))
         IN  <<Sign(d) * (n \div g), Abs(d) \div g>>

IsNaN(x) == x = NaN

IsInf(x) == x[2] = 0 /\ x[1] # 0

FMul(x, y) == Norm(x[1] * y[1], x[2] * y[2])

FAdd(x, y) ==
    IF IsNaN(x) \/ IsNaN(y) THEN NaN
    ELSE IF IsInf(x) /\ IsInf(y) THEN (IF x = y THEN x ELSE NaN)
    ELSE IF IsInf(x) THEN x
    ELSE IF IsInf(y) THEN y
    ELSE Norm(x[1] * y[2] + y[1] * x[2], x[2] * y[2])

FDiv(x, y) == Norm(x[1] * y[2], x[2] * y[1])

\* x < y on f32: false whenever an operand is NaN
FLt(x, y) ==
    /\ ~IsNaN(x)
    /\ ~IsNaN(y)
    /\ IF IsInf(x) \/ IsInf(y) THEN x # y /\ (x = <<0 - 1, 0>> \/ y = <<1, 0>>)
       ELSE x[1] * y[2] < y[1] * x[2]

FGt(x, y) == FLt(y, x)

FLe(x, y) == ~IsNaN(x) /\ ~IsNaN(y) /\ ~FLt(y, x)

FGe(x, y) == FLe(y, x)

\* f32::partial_cmp: {} is None
partial_cmp(x, y) ==
    IF IsNaN(x) \/ IsNaN(y) THEN {}
    ELSE IF FLt(x, y) THEN {"Less"}
    ELSE IF FLt(y, x) THEN {"Greater"}
    ELSE {"Equal"}

(* ------------------- label-history store (mod tree) ------------------- *)

ROOT_NODE == 0 - 1

\* SuffixTree::new: a store holding only ROOT
SuffixTreeNew == <<>>

\* node id n (0-based) is stored at index n + 1
NodeIds(tree) == 0 .. (Len(tree) - 1)

label(tree, node) == IF node = ROOT_NODE THEN {} ELSE {tree[node + 1].label}

Children(tree, node, lab) ==
    {n \in NodeIds(tree) : tree[n + 1].parent = node /\ tree[n + 1].label = lab}

\* the child index keeps the entry registered last for (node, label)
get_child(tree, node, lab) ==
    LET c == Children(tree, node, lab)
    IN  IF c = {} THEN {} ELSE {CHOOSE n \in c : \A m \in c : m <= n}

add_node(tree, parent, lab, time) ==
    [tree |-> Append(tree, [parent |-> parent, label |-> lab, time |-> time]),
     node |-> Len(tree)]

\* (label, time) pairs from node up to, excluding, ROOT
RECURSIVE iter_from(_, _)
iter_from(tree, node) ==
    IF node = ROOT_NODE THEN <<>>
    ELSE <<<<tree[node + 1].label, tree[node + 1].time>>>>
            \o iter_from(tree, tree[node + 1].parent)

(* --------------------------- beam search ------------------------------ *)

beam_cut_threshold == Zero

DELETE_MARKER == (0 - 2147483647) - 1

SearchPoint(node, state, label_prob, gap_prob) ==
    [node |-> node, state |-> state, label_prob |-> label_prob, gap_prob |-> gap_prob]

probability(x) == FAdd(x.label_prob, x.gap_prob)

InitialBeam == <<SearchPoint(ROOT_NODE, 0, Zero, One)>>

\* the blank extension of one search point for row pr
ExtendBlank(point, pr) ==
    IF FGt(pr[1], beam_cut_threshold)
    THEN <<SearchPoint(point.node, point.state, Zero,
                       FMul(FAdd(point.label_prob, point.gap_prob), pr[1]))>>
    ELSE <<>>

\* ExtendLabel without the tip-label case: a repeated label always extends
ExtendLabelNoCollapse(acc, point, lab, pr_b, time) ==
    IF FLt(pr_b, beam_cut_threshold) THEN acc
    ELSE LET found == get_child(acc.tree, point.node, lab)
             added == add_node(acc.tree, point.node, lab, time)
         IN  [tree |-> IF found = {} THEN added.tree ELSE acc.tree,
              out |-> Append(acc.out,
                             SearchPoint(IF found = {} THEN added.node
                                         ELSE CHOOSE n \in found : TRUE,
                                         point.state,
                                         FMul(FAdd(point.label_prob, point.gap_prob), pr_b),
                                         Zero))]

\* ExtendLabel without the get_child lookup: add_node whenever a child is needed
ExtendLabelNoLookup(acc, point, lab, pr_b, time) ==
    IF FLt(pr_b, beam_cut_threshold) THEN acc
    ELSE LET added == add_node(acc.tree, point.node, lab, time)
             tip == label(acc.tree, point.node) = {lab}
             skip == tip /\ ~FGt(point.gap_prob, Zero)
             stay == IF tip
                     THEN <<SearchPoint(point.node, point.state,
                                        FMul(point.label_prob, pr_b), Zero)>>
                     ELSE <<>>
             mass == IF tip THEN point.gap_prob
                     ELSE FAdd(point.label_prob, point.gap_prob)
         IN  [tree |-> IF skip THEN acc.tree ELSE added.tree,
              out |-> acc.out \o stay \o
                      (IF skip THEN <<>>
                       ELSE <<SearchPoint(added.node, point.state, FMul(mass, pr_b), Zero)>>)]

\* ExtendLabel testing gap_prob before get_child: with gap_prob = 0 an existing
\* child gets no point
ExtendLabelGapFirst(acc, point, lab, pr_b, time) ==
    IF FLt(pr_b, beam_cut_threshold) THEN acc
    ELSE LET found == get_child(acc.tree, point.node, lab)
             added == add_node(acc.tree, point.node, lab, time)
             tip == label(acc.tree, point.node) = {lab}
             skip == tip /\ ~FGt(point.gap_prob, Zero)
             stay == IF tip
                     THEN <<SearchPoint(point.node, point.state,
                                        FMul(point.label_prob, pr_b), Zero)>>
                     ELSE <<>>
             mass == IF tip THEN point.gap_prob
                     ELSE FAdd(point.label_prob, point.gap_prob)
         IN  [tree |-> IF skip \/ found # {} THEN acc.tree ELSE added.tree,
              out |-> acc.out \o stay \o
                      (IF skip THEN <<>>
                       ELSE <<SearchPoint(IF found = {} THEN added.node
                                          ELSE CHOOSE n \in found : TRUE,
                                          point.state, FMul(mass, pr_b), Zero)>>)]

\* one label of the label loop for one search point: acc is the store and the
\* points pushed so far; lab is the 0-based label, pr_b its probability
ExtendLabel(acc, point, lab, pr_b, time) ==
    IF FLt(pr_b, beam_cut_threshold) THEN acc
    ELSE IF label(acc.tree, point.node) = {lab}
    THEN LET stay == SearchPoint(point.node, point.state,
                                 FMul(point.label_prob, pr_b), Zero)
             found == get_child(acc.tree, point.node, lab)
             added == add_node(acc.tree, point.node, lab, time)
             create == found = {} /\ FGt(point.gap_prob, Zero)
             tree1 == IF create THEN added.tree ELSE acc.tree
             new_node_idx == IF found # {} THEN found
                             ELSE IF create THEN {added.node} ELSE {}
         IN  [tree |-> tree1,
              out |-> acc.out \o <<stay>> \o
                      (IF new_node_idx = {} THEN <<>>
                       ELSE <<SearchPoint(CHOOSE n \in new_node_idx : TRUE, point.state,
                                          FMul(point.gap_prob, pr_b), Zero)>>)]
    ELSE LET found == get_child(acc.tree, point.node, lab)
             added == add_node(acc.tree, point.node, lab, time)
             tree1 == IF found = {} THEN added.tree ELSE acc.tree
             new_node_idx == IF found = {} THEN added.node
                             ELSE CHOOSE n \in found : TRUE
         IN  [tree |-> tree1,
              out |-> Append(acc.out,
                             SearchPoint(new_node_idx, point.state,
                                         FMul(FAdd(point.label_prob, point.gap_prob), pr_b),
                                         Zero))]

\* the label loop: labels lab .. Len(pr) - 2 in order
RECURSIVE LabelLoop(_, _, _, _, _)
LabelLoop(acc, point, pr, lab, time) ==
    IF lab + 2 > Len(pr) THEN acc
    ELSE LabelLoop(ExtendLabel(acc, point, lab, pr[lab + 2], time), point, pr, lab + 1, time)

\* the body of the loop over the beam for one search point
ExpandPoint(tree, out, point, pr, time) ==
    LabelLoop([tree |-> tree, out |-> out \o ExtendBlank(point, pr)], point, pr, 0, time)

\* beam.sort_by_key(|x| x.node): stable insertion of x into a sorted sequence
RECURSIVE InsertByKey(_, _)
InsertByKey(sorted, x) ==
    IF sorted = <<>> THEN <<x>>
    ELSE LET last == sorted[Len(sorted)]
         IN  IF last.node <= x.node THEN Append(sorted, x)
             ELSE Append(InsertByKey(SubSeq(sorted, 1, Len(sorted) - 1), x), last)

RECURSIVE SortByKey(_)
SortByKey(s) ==
    IF s = <<>> THEN <<>>
    ELSE InsertByKey(SortByKey(SubSeq(s, 1, Len(s) - 1)), s[Len(s)])

\* the merge loop over the key-sorted beam followed by retain: b is the part
\* already processed, last_key_pos indexes it (0 when last_key is DELETE_MARKER)
RECURSIVE MergeLoop(_, _, _, _, _)
MergeLoop(b, last_key, last_key_pos, s, i) ==
    IF i > Len(s) THEN b
    ELSE LET beam_item == s[i]
         IN  IF beam_item.node = last_key
             THEN MergeLoop([b EXCEPT
                               ![last_key_pos].label_prob = FAdd(@, beam_item.label_prob),
                               ![last_key_pos].gap_prob = FAdd(@, beam_item.gap_prob)],
                            last_key, last_key_pos, s, i + 1)
             ELSE MergeLoop(Append(b, beam_item), beam_item.node, Len(b) + 1, s, i + 1)

Merge(s) == MergeLoop(<<>>, DELETE_MARKER, 0, SortByKey(s), 1)

\* sort_unstable_by sets has_nans when a comparison returns None; sorting a
\* slice of two or more elements compares every element at least once
has_nans(b) ==
    /\ Len(b) >= 2
    /\ \E i \in 1 .. Len(b) : partial_cmp(probability(b[i]), probability(b[i])) = {}

Remove(s, i) == SubSeq(s, 1, i - 1) \o SubSeq(s, i + 1, Len(s))

\* SortTruncate without the truncate
RECURSIVE SortKeepAll(_, _)
SortKeepAll(b, k) ==
    IF b = <<>> THEN {<<>>}
    ELSE LET tops == {i \in 1 .. Len(b) :
                        \A j \in 1 .. Len(b) :
                           ~FLt(probability(b[i]), probability(b[j]))}
         IN  UNION {{<<b[i]>> \o rest : rest \in SortKeepAll(Remove(b, i), k)} :
                    i \in tops}

\* sort_unstable_by (descending probability) followed by truncate(k): the
\* order of equal elements is unspecified, so every order is an outcome
RECURSIVE SortTruncate(_, _)
SortTruncate(b, k) ==
    IF b = <<>> \/ k = 0 THEN {<<>>}
    ELSE LET tops == {i \in 1 .. Len(b) :
                        \A j \in 1 .. Len(b) :
                           ~FLt(probability(b[i]), probability(b[j]))}
         IN  UNION {{<<b[i]>> \o rest : rest \in SortTruncate(Remove(b, i), k - 1)} :
                    i \in tops}

\* Renormalize dividing by the last search point's probability
RenormalizeByLast(b) ==
    LET top == probability(b[Len(b)])
    IN  [i \in 1 .. Len(b) |->
           [b[i] EXCEPT !.label_prob = FDiv(@, top), !.gap_prob = FDiv(@, top)]]

Renormalize(b) ==
    LET top == probability(b[1])
    IN  [i \in 1 .. Len(b) |->
           [b[i] EXCEPT !.label_prob = FDiv(@, top), !.gap_prob = FDiv(@, top)]]

NoResult == [kind |-> "None", sequences |-> <<>>, probas |-> <<>>]

Err(kind) == [kind |-> kind, sequences |-> <<>>, probas |-> <<>>]

\* everything after the swap in one timestep: the set of possible outcomes
Prune(pushed, k) ==
    LET merged == Merge(pushed)
    IN  IF has_nans(merged) THEN {[result |-> Err("IncomparableValues"), beam |-> <<>>]}
        ELSE {IF kept = <<>>
              THEN [result |-> Err("RanOutOfBeam"), beam |-> <<>>]
              ELSE [result |-> NoResult, beam |-> Renormalize(kept)] :
              kept \in SortTruncate(merged, k)}

RECURSIVE Reverse(_)
Reverse(s) == IF s = <<>> THEN <<>> ELSE Append(Reverse(Tail(s)), Head(s))

\* the string of one hypothesis: alphabet bytes along iter_from, reversed
SequenceOf(tree, alph, node) ==
    LET path == iter_from(tree, node)
    IN  Reverse([i \in 1 .. Len(path) |-> alph[path[i][1] + 2]])

RECURSIVE Drain(_, _, _, _)
Drain(b, tree, alph, acc) ==
    IF b = <<>> THEN acc
    ELSE Drain(Tail(b), tree, alph,
               IF Head(b).node # ROOT_NODE
               THEN [acc EXCEPT !.probas = Append(@, probability(Head(b))),
                                !.sequences = Append(@, SequenceOf(tree, alph, Head(b).node))]
               ELSE acc)

Output(b, tree, alph) ==
    Drain(b, tree, alph, [kind |-> "Ok", sequences |-> <<>>, probas |-> <<>>])

\* the loop over the beam of one timestep, from position p
RECURSIVE ExpandBeam(_, _, _, _, _, _)
ExpandBeam(tree, out, b, p, pr, time) ==
    IF p > Len(b) THEN [tree |-> tree, out |-> out]
    ELSE LET r == ExpandPoint(tree, out, b[p], pr, time)
         IN  ExpandBeam(r.tree, r.out, b, p + 1, pr, time)

\* beam_search from timestep t (0-based) on: the set of possible results
RECURSIVE SearchFrom(_, _, _, _, _, _)
SearchFrom(b, tree, alph, mat, t, k) ==
    IF t = Len(mat) THEN {Output(b, tree, alph)}
    ELSE LET r == ExpandBeam(tree, <<>>, b, 1, mat[t + 1], t)
         IN  UNION {IF o.result.kind = "None"
                    THEN SearchFrom(o.beam, r.tree, alph, mat, t + 1, k)
                    ELSE {o.result} : o \in Prune(r.out, k)}

beam_search(mat, alph, k) == SearchFrom(InitialBeam, SuffixTreeNew, alph, mat, 0, k)

(* ----------------------------- actions -------------------------------- *)

\* the loop body for the search point at position pos of the current beam
Expand ==
    /\ pc = "loop"
    /\ idx < Len(probs)
    /\ pos <= Len(beam)
    /\ LET r == ExpandPoint(suffix_tree, next_beam, beam[pos], probs[idx + 1], idx)
       IN  /\ suffix_tree' = r.tree
           /\ next_beam' = r.out
    /\ pos' = pos + 1
    /\ UNCHANGED <<alphabet, probs, beam_size, beam, idx, pc, result>>

\* swap, merge, sort, truncate and renormalize; next_beam.clear() of the next
\* iteration is taken here
EndTimestep ==
    /\ pc = "loop"
    /\ idx < Len(probs)
    /\ pos > Len(beam)
    /\ \E o \in Prune(next_beam, beam_size) :
          /\ beam' = o.beam
          /\ result' = o.result
          /\ pc' = IF o.result.kind = "None" THEN "loop" ELSE "done"
          /\ idx' = IF o.result.kind = "None" THEN idx + 1 ELSE idx
    /\ next_beam' = <<>>
    /\ pos' = 1
    /\ UNCHANGED <<alphabet, probs, beam_size, suffix_tree>>

\* after the last row: drain the beam into sequences and probas
Finalize ==
    /\ pc = "loop"
    /\ idx = Len(probs)
    /\ result' = Output(beam, suffix_tree, alphabet)
    /\ pc' = "done"
    /\ beam' = <<>>
    /\ UNCHANGED <<alphabet, probs, beam_size, suffix_tree, next_beam, idx, pos>>

Next == Expand \/ EndTimestep \/ Finalize

(* ------------------------------ inputs -------------------------------- *)

Symbols == <<"-", "A", "C", "G", "T", "N", "R", "Y", "K", "M", "S", "W", "B", "D">>

\* the alphabets of at most n symbols, blank first
Alphabets(n) == {SubSeq(Symbols, 1, a) : a \in 1 .. n}

Vals == {<<0 - 1, 1>>, Zero, <<1, 4>>, <<1, 2>>, NaN}

ProbVals == {Zero, <<1, 2>>, One}

OneHot(n, c) == [j \in 1 .. n |-> IF j = c THEN One ELSE Zero]

OneHotRows(n) == {OneHot(n, c) : c \in 1 .. n}

\* the matrices of at most maxCells entries whose rows are in rows
Matrices(rows, width, maxCells) == UNION {[1 .. t -> rows] : t \in 0 .. (maxCells \div width)}

Start(alph, mat, k) ==
    /\ alphabet = alph
    /\ probs = mat
    /\ beam_size = k
    /\ suffix_tree = SuffixTreeNew
    /\ beam = InitialBeam
    /\ next_beam = <<>>
    /\ idx = 0
    /\ pos = 1
    /\ pc = "loop"
    /\ result = NoResult

Init ==
    \E alph \in Alphabets(MaxCells) :
       \E mat \in Matrices([1 .. Len(alph) -> Vals], Len(alph), MaxCells) :
          \E k \in 1 .. MaxBeam : Start(alph, mat, k)

Spec == Init /\ [][Next]_vars

InitOneHot ==
    \E alph \in Alphabets(MaxCellsOneHot) \ Alphabets(1) :
       \E mat \in Matrices(OneHotRows(Len(alph)), Len(alph), MaxCellsOneHot) :
          \E k \in 1 .. MaxBeamOneHot : Start(alph, mat, k)

SpecOneHot == InitOneHot /\ [][Next]_vars

InitProb ==
    \E alph \in Alphabets(MaxCellsProb) :
       \E mat \in Matrices([1 .. Len(alph) -> ProbVals], Len(alph), MaxCellsProb) :
          \E k \in 1 .. MaxBeamProb : Start(alph, mat, k)

SpecProb == InitProb /\ [][Next]_vars

ACGTMatrix == [t \in 1 .. 4 |-> OneHot(5, t + 1)]

InitACGT == \E k \in BeamSizesACGT : Start(SubSeq(Symbols, 1, 5), ACGTMatrix, k)

SpecACGT == InitACGT /\ [][Next]_vars

TypeOK ==
    /\ pc \in {"loop", "done"}
    /\ idx \in 0 .. Len(probs)
    /\ pos \in 1 .. (Len(beam) + 1)
    /\ Len(beam) <= beam_size

(* --------------------------- properties ------------------------------- *)

Done == pc = "done"

Succeeded == Done /\ result.kind = "Ok"

EmptyOutput == result.kind = "Ok" /\ result.sequences = <<>> /\ result.probas = <<>>

Timesteps == 1 .. Len(probs)

Columns == 1 .. Len(alphabet)

LabelColumns == 2 .. Len(alphabet)

IsZeroRow(t) == \A j \in Columns : probs[t][j] = Zero

\* C1: a matrix with at least one row whose rows are all 0.0 fails with
\* RanOutOfBeam at the first timestep, whatever the alphabet and beam size
C1_ZeroRowsExhaustBeam ==
    (Done /\ Len(probs) >= 1 /\ \A t \in Timesteps : IsZeroRow(t))
        => (result.kind = "RanOutOfBeam" /\ idx = 0)

\* C2: a matrix with a NaN in any cell fails with IncomparableValues
C2_NaNIsIncomparable ==
    (Done /\ \E t \in Timesteps : \E j \in Columns : IsNaN(probs[t][j]))
        => result.kind = "IncomparableValues"

NonNegative == \A t \in Timesteps : \A j \in Columns : FGe(probs[t][j], Zero)

BlankDominant ==
    \A t \in Timesteps : \A j \in LabelColumns : FGt(probs[t][1], probs[t][j])

BlankPositive == \A t \in Timesteps : FGt(probs[t][1], Zero)

\* C4 as stated: when the blank probability is strictly larger than every
\* label probability in every row, sequences and scores are empty for every
\* beam size
C4_BlankDominantEmpty == (Done /\ BlankDominant) => EmptyOutput

\* C4 amended: when the blank probability is positive and strictly larger
\* than every label probability in every row and beam_size is 1, sequences and
\* scores are empty
C4_BlankDominantBeamOneEmpty ==
    (Done /\ BlankDominant /\ BlankPositive /\ beam_size = 1) => EmptyOutput

C4_Witness ==
    /\ Done
    /\ BlankDominant
    /\ BlankPositive
    /\ beam_size = 1
    /\ Len(probs) = 3
    /\ \A t \in Timesteps : \E j \in LabelColumns : FGt(probs[t][j], Zero)
    /\ EmptyOutput

RowIs(t, c) == probs[t] = OneHot(Len(alphabet), c)

\* column c is chosen at the timesteps in ts, blank at every other timestep
ChosenAt(c, ts) == \A u \in Timesteps : RowIs(u, IF u \in ts THEN c ELSE 1)

Adjacent(c) == \E t \in Timesteps : t + 1 \in Timesteps /\ ChosenAt(c, {t, t + 1})

Separated(c) == \E t \in Timesteps : t + 2 \in Timesteps /\ ChosenAt(c, {t, t + 2})

TopSequenceIs(str) ==
    /\ result.kind = "Ok"
    /\ result.sequences # <<>>
    /\ result.sequences[1] = str

\* C5: with one-hot rows, a label chosen at exactly two adjacent timesteps
\* (blank elsewhere) decodes to that single character as the top sequence; the
\* same label at two timesteps separated by one blank timestep decodes to the
\* character twice
C5_Collapsing ==
    Done => \A c \in LabelColumns :
               /\ Adjacent(c) => TopSequenceIs(<<alphabet[c]>>)
               /\ Separated(c) => TopSequenceIs(<<alphabet[c], alphabet[c]>>)

C5_Witness ==
    /\ Done
    /\ beam_size = 2
    /\ Len(probs) = 4
    /\ \E c \in LabelColumns :
          /\ ChosenAt(c, {2, 3})
          /\ TopSequenceIs(<<alphabet[c]>>)
          /\ Len(result.sequences) = 2

\* C6: for beam sizes k1 < k2 that both succeed with a non-empty list on the
\* same matrix and alphabet, the first score for k2 is at least the first
\* score for k1
C6_BeamSizeMonotone ==
    (Succeeded /\ result.probas # <<>>)
        => \A k2 \in (beam_size + 1) .. MaxBeam :
              \A r2 \in beam_search(probs, alphabet, k2) :
                 (r2.kind = "Ok" /\ r2.probas # <<>>)
                     => FGe(r2.probas[1], result.probas[1])

\* C7: for alphabet "-ACGT" and the rows one-hot on A, C, G, T the result is
\* exactly the one-element list ["ACGT"], for every beam size
C7_ExactlyACGT ==
    Done => (result.kind = "Ok" /\ result.sequences = << <<"A", "C", "G", "T">> >>)

\* C8: on success sequences and scores have the same length and the scores
\* are non-increasing
C8_ScoresNonIncreasing ==
    Succeeded
        => /\ Len(result.sequences) = Len(result.probas)
           /\ \A i \in 1 .. (Len(result.probas) - 1) :
                 FGe(result.probas[i], result.probas[i + 1])

\* C9: in every reachable state the store holds at most one node per
\* (parent, label) pair
C9_ChildUnique ==
    \A n \in NodeIds(suffix_tree) : \A m \in NodeIds(suffix_tree) :
       (/\ suffix_tree[n + 1].parent = suffix_tree[m + 1].parent
        /\ suffix_tree[n + 1].label = suffix_tree[m + 1].label) => n = m

\* a point was pushed at a node created in an earlier timestep, found through
\* get_child from its parent's search point
C9_Witness ==
    /\ pc = "loop"
    /\ Len(suffix_tree) >= 3
    /\ \E i \in DOMAIN next_beam :
          LET n == next_beam[i].node
          IN  /\ n # ROOT_NODE
              /\ suffix_tree[n + 1].time < idx
              /\ \A q \in DOMAIN beam : beam[q].node # n
              /\ \E q \in 1 .. (pos - 1) : beam[q].node = suffix_tree[n + 1].parent

\* search points of the current beam already expanded in this timestep whose
\* tip label was offered by the row (not below the cut-off)
ExpandedAtTip ==
    {q \in 1 .. (pos - 1) :
        /\ pc = "loop"
        /\ idx < Len(probs)
        /\ beam[q].node # ROOT_NODE
        /\ ~FLt(probs[idx + 1][suffix_tree[beam[q].node + 1].label + 2], beam_cut_threshold)}

TipChildren(q) ==
    Children(suffix_tree, beam[q].node, suffix_tree[beam[q].node + 1].label)

PushedAtTipChild(q) == \E i \in DOMAIN next_beam : next_beam[i].node \in TipChildren(q)

\* C10 as stated: extending a search point by its tip label pushes a point at
\* the child node only if gap_prob > 0, whether or not the child exists
C10_ChildOnlyWithGap ==
    \A q \in ExpandedAtTip : PushedAtTipChild(q) => FGt(beam[q].gap_prob, Zero)

\* C10 amended: extending a search point by its tip label pushes a point at
\* the child node exactly when the child already existed in the store or
\* gap_prob > 0
C10_ChildIffExistingOrGap ==
    \A q \in ExpandedAtTip :
       PushedAtTipChild(q)
           <=> \/ FGt(beam[q].gap_prob, Zero)
               \/ \E c \in TipChildren(q) : suffix_tree[c + 1].time < idx

C10_Witness ==
    \E q \in ExpandedAtTip :
       /\ ~FGt(beam[q].gap_prob, Zero)
       /\ PushedAtTipChild(q)
       /\ \A i \in DOMAIN next_beam :
             next_beam[i].node \in TipChildren(q) => next_beam[i].label_prob = Zero

====
